---- MODULE Spec2Model ----
(***************************************************************************)
(* A model of the serverless helper library: the lazily-initialising       *)
(* service Container, the Environment accessor, the request/response       *)
(* adapter (createLambdaRequest, createLambdaProxyResponse) and the        *)
(* LambdaWrapper (restApiProxy, handle, registerErrorHandler).             *)
(*                                                                         *)
(* The source tree holds two revisions of the wrapper and the adapter:     *)
(* src/src/Lambda.ts (body parsed only for content-type application/json,  *)
(* no error handler) and src/unnamed/part_001 (body always parsed, error   *)
(* handler registry).  The variable `version` selects the revision a       *)
(* behaviour runs; the wrapper and the adapter are checked for both.       *)
(*                                                                         *)
(* JavaScript strings are sequences of characters (one-character TLA+      *)
(* strings); JavaScript values are records tagged by the field t.          *)
(***************************************************************************)
EXTENDS Integers, Sequences, FiniteSets, TLC

VARIABLES
  version,       \* which revision of Lambda.ts the wrapper runs
  environment,   \* Environment.search
  initiator,     \* Container.initiator
  cache,         \* Container.cache
  calls,         \* the service() calls made so far, in the order they started
  overlapped,    \* history: per name, whether two calls for it ever overlapped
  errorHandler,  \* LambdaWrapper.errorHandler
  inv,           \* the invocations of the wrapped handlers
  lookup,        \* the last environment lookup: its key and its outcome
  notified       \* history: the calls of the registered error handler, in order

vars ==
  <<version, environment, initiator, cache, calls, overlapped, errorHandler, inv, lookup,
    notified>>

-----------------------------------------------------------------------------
(* Bounds of the model.                                                    *)

\* service() calls made over a behaviour
MaxCalls ==
  3

\* invocations of a wrapped handler over a behaviour
MaxInvocations ==
  1

-----------------------------------------------------------------------------
(* Text.                                                                   *)

ContainerMissingServiceErrorName ==
  <<"C","o","n","t","a","i","n","e","r","M","i","s","s","i","n","g","S","e","r","v","i","c",
    "e","I","n","i","t","i","a","t","o","r","E","r","r","o","r">>

MissingEnvironmentVariableErrorName ==
  <<"M","i","s","s","i","n","g","E","n","v","i","r","o","n","m","e","n","t","V","a","r","i",
    "a","b","l","e","E","r","r","o","r">>

TxtError ==
  <<"E","r","r","o","r">>

TxtBoom ==
  <<"b","o","o","m">>

TxtName ==
  <<"n","a","m","e">>

TxtMessage ==
  <<"m","e","s","s","a","g","e">>

TxtStack ==
  <<"s","t","a","c","k">>

TxtContentTypeJson ==
  <<"a","p","p","l","i","c","a","t","i","o","n","/","j","s","o","n">>

TxtInternalError ==
  <<"i","n","t","e","r","n","a","l",".","e","r","r","o","r">>

HeaderContentType ==
  <<"c","o","n","t","e","n","t","-","t","y","p","e">>

TxtBucket ==
  <<"m","y","-","s","3","-","b","u","c","k","e","t">>

TxtType ==
  <<"t","y","p","e">>

TxtStatus ==
  <<"s","t","a","t","u","s">>

TxtData ==
  <<"d","a","t","a">>

BodyValid ==
  <<"{","\"","a","\"",":","1","}">>

BodyMalformed ==
  <<"{","n","o","t"," ","v","a","l","i","d">>

TxtRequestId ==
  <<"r","e","q","u","e","s","t","I","d">>

TxtStageKey ==
  <<"s","t","a","g","e">>

TxtCannotRead ==
  <<"C","a","n","n","o","t"," ","r","e","a","d"," ","p","r","o","p","e","r","t","i","e","s",
    " ","o","f"," ","u","n","d","e","f","i","n","e","d">>

-----------------------------------------------------------------------------
(* JavaScript values.                                                      *)

Undefined ==
  [t |-> "undefined"]

Null ==
  [t |-> "null"]

Str(s) ==
  [t |-> "string", v |-> s]

Num(n) ==
  [t |-> "number", v |-> n]

Bool(b) ==
  [t |-> "boolean", v |-> b]

\* an array: its elements in order
Arr(items) ==
  [t |-> "array", v |-> items]

\* a plain object: its own enumerable properties <<key, value>> in insertion order
Obj(props) ==
  [t |-> "object", v |-> props]

\* a plain object that refers to itself
Circular ==
  [t |-> "circular"]

\* obj[key] on a plain object (undefined when the key is absent)
RECURSIVE GetFrom(_, _, _)
GetFrom(props, key, i) ==
  IF i > Len(props) THEN Undefined
  ELSE IF props[i][1] = key THEN props[i][2]
  ELSE GetFrom(props, key, i + 1)

Get(obj, key) ==
  GetFrom(obj.v, key, 1)

\* the outcome of a computation that may throw
Returned(v) ==
  [thrown |-> FALSE, val |-> v]

Thrown(e) ==
  [thrown |-> TRUE, val |-> e]

\* new Error(message), with the stack the runtime records (or none)
StackOf(message) ==
  <<"E", "r", "r", "o", "r", ":", " ">> \o message \o <<"\n", " ", " ", " ", " ", "a", "t", " ",
      "f", " ", "(", "i", "n", "d", "e", "x", ".", "j", "s", ":", "1", ":", "1", ")">>

ErrorObject(name, message, stack) ==
  [t |-> "error", name |-> name, message |-> message, stack |-> stack]

TypeError(message) ==
  ErrorObject(Str(<<"T", "y", "p", "e", "E", "r", "r", "o", "r">>), Str(message),
      Str(StackOf(message)))

SyntaxError(message) ==
  ErrorObject(Str(<<"S", "y", "n", "t", "a", "x", "E", "r", "r", "o", "r">>), Str(message),
      Str(StackOf(message)))

\* error.name, error.message, error.stack on whatever was caught: reading a
\* property of undefined or null throws, a primitive has none of the three
HasProperties(v) ==
  v.t \notin {"undefined", "null"}

ErrorName(v) ==
  IF v.t = "error" THEN v.name ELSE Undefined

ErrorMessage(v) ==
  IF v.t = "error" THEN v.message ELSE Undefined

ErrorStack(v) ==
  IF v.t = "error" THEN v.stack ELSE Undefined

-----------------------------------------------------------------------------
(* The runtime's string and JSON functions, on the values above.           *)
(* JSON.parse reads the grammar of objects, arrays, strings with the       *)
(* escapes \" \\ \n, non-negative integers, true, false and null.          *)

DigitChars ==
  <<"0", "1", "2", "3", "4", "5", "6", "7", "8", "9">>

IsDigit(c) ==
  \E d \in 1..10 : DigitChars[d] = c

DigitValue(c) ==
  (CHOOSE d \in 1..10 : DigitChars[d] = c) - 1

\* String(n) for a non-negative integer
RECURSIVE NumberToString(_)
NumberToString(n) ==
  IF n < 10 THEN <<DigitChars[n + 1]>>
  ELSE NumberToString(n \div 10) \o <<DigitChars[(n % 10) + 1]>>

\* the UTF-16 code units and the UTF-8 bytes of one character
Utf16Units(c) ==
  CASE c = "U+00E9" -> 1
    [] c = "U+20AC" -> 1
    [] c = "U+1F600" -> 2
    [] OTHER -> 1

Utf8Bytes(c) ==
  CASE c = "U+00E9" -> 2
    [] c = "U+20AC" -> 3
    [] c = "U+1F600" -> 4
    [] OTHER -> 1

\* the concatenation of the sequences parts[lo], ..., parts[hi]
RECURSIVE Flatten(_, _, _)
Flatten(parts, lo, hi) ==
  IF lo > hi THEN <<>>
  ELSE IF lo = hi THEN parts[lo]
  ELSE LET mid == (lo + hi) \div 2 IN Flatten(parts, lo, mid) \o Flatten(parts, mid + 1, hi)

\* the sum of nums[lo], ..., nums[hi]
RECURSIVE Sum(_, _, _)
Sum(nums, lo, hi) ==
  IF lo > hi THEN 0
  ELSE IF lo = hi THEN nums[lo]
  ELSE LET mid == (lo + hi) \div 2 IN Sum(nums, lo, mid) + Sum(nums, mid + 1, hi)

\* s.length
StringLength(s) ==
  Sum([i \in 1..Len(s) |-> Utf16Units(s[i])], 1, Len(s))

\* Buffer.byteLength(s)
ByteLength(s) ==
  Sum([i \in 1..Len(s) |-> Utf8Bytes(s[i])], 1, Len(s))

\* s.split('\n'): the array of the lines of s
SplitLines(s) ==
  LET IsBreak(i) == s[i] = "\n"
      breaks == <<0>> \o SelectSeq([i \in 1..Len(s) |-> i], IsBreak) \o <<Len(s) + 1>>
  IN Arr(Flatten([k \in 1..(Len(breaks) - 1) |->
                    <<Str(SubSeq(s, breaks[k] + 1, breaks[k + 1] - 1))>>],
                 1, Len(breaks) - 1))

\* a string as JSON text
EscapeChar(c) ==
  CASE c = "\"" -> <<"\\", "\"">>
    [] c = "\\" -> <<"\\", "\\">>
    [] c = "\n" -> <<"\\", "n">>
    [] OTHER -> <<c>>

Quote(s) ==
  <<"\"">> \o Flatten([i \in 1..Len(s) |-> EscapeChar(s[i])], 1, Len(s)) \o <<"\"">>

\* whether JSON.stringify throws on v (a cyclic structure)
RECURSIVE HasCycle(_)
HasCycle(v) ==
  CASE v.t = "circular" -> TRUE
    [] v.t = "array" -> \E i \in 1..Len(v.v) : HasCycle(v.v[i])
    [] v.t = "object" -> \E i \in 1..Len(v.v) : HasCycle(v.v[i][2])
    [] OTHER -> FALSE

\* values JSON.stringify leaves out of an object and writes as null in an array
Unserialisable(v) ==
  v.t \in {"undefined", "function"}

\* the JSON text of a value that has one
RECURSIVE JsonText(_)
RECURSIVE JsonElements(_, _)
RECURSIVE JsonMembers(_, _, _)
JsonText(v) ==
  CASE v.t = "null" -> <<"n", "u", "l", "l">>
    [] v.t = "boolean" -> IF v.v THEN <<"t", "r", "u", "e">> ELSE <<"f", "a", "l", "s", "e">>
    [] v.t = "number" -> NumberToString(v.v)
    [] v.t = "string" -> Quote(v.v)
    [] v.t = "array" -> <<"[">> \o JsonElements(v.v, 1) \o <<"]">>
    [] v.t = "object" -> <<"{">> \o JsonMembers(v.v, 1, TRUE) \o <<"}">>
    [] OTHER -> <<"{", "}">>

JsonElements(items, i) ==
  IF i > Len(items) THEN <<>>
  ELSE (IF i > 1 THEN <<",">> ELSE <<>>)
       \o (IF Unserialisable(items[i]) THEN JsonText(Null) ELSE JsonText(items[i]))
       \o JsonElements(items, i + 1)

JsonMembers(props, i, first) ==
  IF i > Len(props) THEN <<>>
  ELSE IF Unserialisable(props[i][2]) THEN JsonMembers(props, i + 1, first)
  ELSE (IF first THEN <<>> ELSE <<",">>)
       \o Quote(props[i][1]) \o <<":">> \o JsonText(props[i][2])
       \o JsonMembers(props, i + 1, FALSE)

\* JSON.stringify(v): the text, undefined for a value that has none, or a TypeError
JSONstringify(v) ==
  IF HasCycle(v) THEN Thrown(TypeError(<<"C", "o", "n", "v", "e", "r", "t", "i", "n", "g", " ",
      "c", "i", "r", "c", "u", "l", "a", "r", " ", "s", "t", "r", "u", "c", "t", "u", "r", "e">>))
  ELSE IF Unserialisable(v) THEN Returned(Undefined)
  ELSE Returned(Str(JsonText(v)))

\* JSON.parse: each parser returns [ok, val, pos], pos the index after what it read
ParseFail ==
  [ok |-> FALSE, val |-> Undefined, pos |-> 0]

Parsed(v, p) ==
  [ok |-> TRUE, val |-> v, pos |-> p]

IsSpace(c) ==
  c \in {" ", "\n", "\t", "\r"}

RECURSIVE SkipSpace(_, _)
SkipSpace(s, i) ==
  IF i <= Len(s) /\ IsSpace(s[i]) THEN SkipSpace(s, i + 1) ELSE i

\* whether the characters of word stand in s at i
Matches(s, i, word) ==
  /\ i + Len(word) - 1 <= Len(s)
  /\ \A k \in 1..Len(word) : s[i + k - 1] = word[k]

\* the backslashes that stand immediately before position p of s, from position
\* from on
BackslashesBefore(s, from, p) ==
  CHOOSE k \in 0..(p - from) : /\ \A m \in 1..k : s[p - m] = "\\"
                               /\ (k = p - from \/ s[p - k - 1] # "\\")

\* whether the character at p is escaped by a backslash before it
Escaped(s, from, p) ==
  BackslashesBefore(s, from, p) % 2 = 1

\* the position of the quote that closes the string whose characters start at
\* i: the first quote that no backslash escapes (0 when there is none)
ClosingQuote(s, i) ==
  LET IsClose(p) == s[p] = "\"" /\ ~Escaped(s, i, p) IN
  IF \E p \in i..Len(s) : IsClose(p)
    THEN CHOOSE p \in i..Len(s) : IsClose(p) /\ \A q \in i..(p - 1) : ~IsClose(q)
    ELSE 0

\* the string whose characters stand in s from i to before its closing quote at
\* j: the backslashes that start an escape are dropped and the character after
\* each is replaced by what the escape stands for
Unescaped(s, i, j) ==
  LET escapes == {p \in i..(j - 1) : s[p] = "\\" /\ ~Escaped(s, i, p)}
      IsKept(p) == p \notin escapes
      kept == SelectSeq([q \in 1..(j - i) |-> q + i - 1], IsKept)
      Char(p) == IF (p - 1) \in escapes /\ s[p] = "n" THEN "\n" ELSE s[p]
      Bad(p) == IF (p - 1) \in escapes THEN s[p] \notin {"n", "\"", "\\", "/"}
                ELSE s[p] \in {"\n", "\t", "\r"}
  IN IF j = 0 \/ \E q \in DOMAIN kept : Bad(kept[q]) THEN ParseFail
     ELSE IF kept = <<>> THEN Parsed(Str(<<>>), j + 1)
     ELSE Parsed(Str([q \in DOMAIN kept |-> Char(kept[q])]), j + 1)

\* a string, from after its opening quote (at i)
ParseChars(s, i) ==
  Unescaped(s, i, ClosingQuote(s, i))

RECURSIVE ParseDigits(_, _, _)
ParseDigits(s, i, acc) ==
  IF i <= Len(s) /\ IsDigit(s[i]) THEN ParseDigits(s, i + 1, 10 * acc + DigitValue(s[i]))
  ELSE Parsed(Num(acc), i)

\* a property set by a later duplicate key keeps its place and takes the new value
RECURSIVE SetIn(_, _, _, _)
SetIn(props, key, v, i) ==
  IF i > Len(props) THEN Append(props, <<key, v>>)
  ELSE IF props[i][1] = key THEN [props EXCEPT ![i] = <<key, v>>]
  ELSE SetIn(props, key, v, i + 1)

RECURSIVE ParseValue(_, _)
RECURSIVE ParseElements(_, _, _)
RECURSIVE ParseMembers(_, _, _)
ParseValue(s, i0) ==
  LET i == SkipSpace(s, i0) IN
  IF i > Len(s) THEN ParseFail
  ELSE IF s[i] = "{" THEN
    (LET j == SkipSpace(s, i + 1) IN
     IF j <= Len(s) /\ s[j] = "}" THEN Parsed(Obj(<<>>), j + 1)
     ELSE ParseMembers(s, j, <<>>))
  ELSE IF s[i] = "[" THEN
    (LET j == SkipSpace(s, i + 1) IN
     IF j <= Len(s) /\ s[j] = "]" THEN Parsed(Arr(<<>>), j + 1)
     ELSE ParseElements(s, j, <<>>))
  ELSE IF s[i] = "\"" THEN ParseChars(s, i + 1)
  ELSE IF Matches(s, i, <<"t", "r", "u", "e">>) THEN Parsed(Bool(TRUE), i + 4)
  ELSE IF Matches(s, i, <<"f", "a", "l", "s", "e">>) THEN Parsed(Bool(FALSE), i + 5)
  ELSE IF Matches(s, i, <<"n", "u", "l", "l">>) THEN Parsed(Null, i + 4)
  ELSE IF IsDigit(s[i]) THEN
    (IF s[i] = "0" /\ i + 1 <= Len(s) /\ IsDigit(s[i + 1]) THEN ParseFail
     ELSE ParseDigits(s, i, 0))
  ELSE ParseFail

ParseElements(s, i, acc) ==
  LET Rest(e, j) ==
        IF j > Len(s) THEN ParseFail
        ELSE IF s[j] = "]" THEN Parsed(Arr(Append(acc, e.val)), j + 1)
        ELSE IF s[j] = "," THEN ParseElements(s, j + 1, Append(acc, e.val))
        ELSE ParseFail
      AfterValue(e) == IF ~e.ok THEN ParseFail ELSE Rest(e, SkipSpace(s, e.pos))
  IN AfterValue(ParseValue(s, i))

ParseMembers(s, i0, acc) ==
  LET Rest(j, props) ==
        IF j > Len(s) THEN ParseFail
        ELSE IF s[j] = "}" THEN Parsed(Obj(props), j + 1)
        ELSE IF s[j] = "," THEN ParseMembers(s, j + 1, props)
        ELSE ParseFail
      AfterValue(k, e) ==
        IF ~e.ok THEN ParseFail ELSE Rest(SkipSpace(s, e.pos), SetIn(acc, k.val.v, e.val, 1))
      AfterColon(k, c) ==
        IF c > Len(s) \/ s[c] # ":" THEN ParseFail ELSE AfterValue(k, ParseValue(s, c + 1))
      AfterKey(k) == IF ~k.ok THEN ParseFail ELSE AfterColon(k, SkipSpace(s, k.pos))
      AtKey(i) == IF i > Len(s) \/ s[i] # "\"" THEN ParseFail ELSE AfterKey(ParseChars(s, i + 1))
  IN AtKey(SkipSpace(s, i0))

\* JSON.parse(s): the value, or a SyntaxError
JSONparse(s) ==
  LET Whole(r) ==
        IF r.ok /\ SkipSpace(s, r.pos) > Len(s) THEN Returned(r.val)
        ELSE Thrown(SyntaxError(<<"U", "n", "e", "x", "p", "e", "c", "t", "e", "d", " ", "t",
                 "o", "k", "e", "n">>))
  IN Whole(ParseValue(s, 1))


-----------------------------------------------------------------------------
(* Errors.                                                                 *)

\* the characters of a service name or an environment key
Chars(id) ==
  CASE id = "aws.s3" -> <<"a", "w", "s", ".", "s", "3">>
    [] id = "db" -> <<"d", "b">>
    [] id = "queue" -> <<"q", "u", "e", "u", "e">>
    [] id = "LOG_LEVEL" -> <<"L", "O", "G", "_", "L", "E", "V", "E", "L">>
    [] id = "MY_S3_BUCKET" -> <<"M", "Y", "_", "S", "3", "_", "B", "U", "C", "K", "E", "T">>

\* new NameAwareError(name, message): an Error whose name and error fields are set
NameAwareError(name, message) ==
  [t |-> "error", name |-> Str(name), message |-> Str(message),
   stack |-> Str(StackOf(message)), error |-> Str(message)]

\* a missing initiator reported under the name of a missing variable
ContainerMissingServiceErrorMisnamed(service) ==
  NameAwareError(MissingEnvironmentVariableErrorName, <<>>)

ContainerMissingServiceError(service) ==
  NameAwareError(ContainerMissingServiceErrorName,
                 <<"T", "h", "e", " ", "s", "e", "r", "v", "i", "c", "e", " ", "\"">>
                     \o Chars(service) \o <<"\"", " ", "h", "a", "s", " ", "n", "o", " ", "i",
                     "n", "i", "t", "i", "a", "t", "o", "r", " ", "p", "r", "o", "v", "i", "d",
                     "e", "d", ".">> \o <<" ">> \o <<"P", "l", "e", "a", "s", "e", " ", "p", "r",
                     "o", "v", "i", "d", "e", " ", "a", "n", " ", "i", "n", "i", "t", "i", "a",
                     "t", "o", "r", " ", "f", "o", "r", " ", "t", "h", "i", "s", " ", "s", "e",
                     "r", "v", "i", "c", "e", " ", "b", "e", "f", "o", "r", "e", " ", "c", "a",
                     "l", "l", "i", "n", "g", " ", "i", "t", ".">>)

MissingEnvironmentVariableError(key) ==
  NameAwareError(MissingEnvironmentVariableErrorName,
                 <<"C", "a", "n", "n", "o", "t", " ", "f", "i", "n", "d", " ", "\"">>
                     \o Chars(key) \o <<"\"", " ", "i", "n", " ", "t", "h", "e", " ", "e", "n",
                     "v", "i", "r", "o", "n", "m", "e", "n", "t", "!">>)

\* what caller code throws: new Error("boom"), an Error without a stack, and the
\* rejection of Promise.reject()
ErrBoom ==
  ErrorObject(Str(TxtError), Str(TxtBoom), Str(StackOf(TxtBoom)))

ErrNoStack ==
  ErrorObject(Str(TxtError), Str(TxtBoom), Undefined)

Throwables ==
  {ErrBoom, ErrNoStack, Undefined}

-----------------------------------------------------------------------------
(* Environment and Container.                                              *)

ServiceNames ==
  {"aws.s3", "db", "queue"}

EnvKeys ==
  {"LOG_LEVEL", "MY_S3_BUCKET"}

\* the search maps an Environment is created from: process.env with and without
\* the bucket variable
Searches ==
  {[k \in EnvKeys |-> IF k = "MY_S3_BUCKET" THEN Str(TxtBucket) ELSE Undefined],
   [k \in EnvKeys |-> IF k = "LOG_LEVEL" THEN Str(<<"d", "e", "v">>) ELSE Undefined]}

\* an initiator: an async function of the container that requests the services
\* deps, in order, before it constructs its own
Initiator(deps) ==
  [t |-> "function", deps |-> deps]

\* the initiator maps a Container is created with; "queue" never has an initiator
InitiatorMaps ==
  {[n \in ServiceNames |-> CASE n = "aws.s3" -> Initiator(<<>>)
                             [] n = "db" -> Initiator(<<>>)
                             [] OTHER -> Undefined],
   [n \in ServiceNames |-> CASE n = "aws.s3" -> Initiator(<<>>)
                             [] n = "db" -> Initiator(<<"aws.s3">>)
                             [] OTHER -> Undefined],
   [n \in ServiceNames |-> CASE n = "aws.s3" -> Initiator(<<"db">>)
                             [] n = "db" -> Initiator(<<"aws.s3">>)
                             [] OTHER -> Undefined]}

\* a lookup without the test for undefined
EnvironmentGetUnchecked(key) ==
  Returned(environment[key])

\* Environment.get(key)
EnvironmentGet(key) ==
  LET value == environment[key] IN
  IF value = Undefined THEN Thrown(MissingEnvironmentVariableError(key))
  ELSE Returned(value)

\* Container.env(key)
ContainerEnv(key) ==
  EnvironmentGet(key)

\* the object the initiator invoked by call c constructs
Instance(c) ==
  [t |-> "instance", id |-> c]

\* who called service(): outside code, the handler of invocation id, or the
\* initiator that call id invoked
Main ==
  [kind |-> "main", id |-> 0]

ByHandler(i) ==
  [kind |-> "handler", id |-> i]

ByInitiator(c) ==
  [kind |-> "initiator", id |-> c]

Settled(call) ==
  call.pc \in {"resolved", "rejected"}

\* a cache that is never read
CacheHitNever(cached) ==
  FALSE

\* the test `cached !== undefined` of Container.service
CacheHit(cached) ==
  cached # Undefined

\* a container that takes a name for cached once a call has written its entry,
\* whatever was written (the test `service in this.cache`)
ServiceStartKeyed(service, owner) ==
  LET cached == cache[service]
      init == initiator[service]
      call == [name |-> service, owner |-> owner, waiting |-> 0]
      written == \E c \in 1..Len(calls) :
                   calls[c].name = service /\ calls[c].invoked /\ calls[c].pc = "resolved"
  IN IF written
       THEN call @@ [pc |-> "resolved", result |-> cached, invoked |-> FALSE, depsLeft |-> <<>>]
     ELSE IF init = Undefined
       THEN call @@ [pc |-> "rejected", result |-> ContainerMissingServiceError(service),
                     invoked |-> FALSE, depsLeft |-> <<>>]
     ELSE call @@ [pc |-> "awaiting", result |-> Undefined, invoked |-> TRUE,
                   depsLeft |-> init.deps]

\* Container.service(service), run to its first await: a cache hit returns the
\* cached instance, a missing initiator throws, otherwise the initiator is
\* invoked and awaited
ServiceStart(service, owner) ==
  LET cached == cache[service]
      init == initiator[service]
      call == [name |-> service, owner |-> owner, waiting |-> 0]
  IN IF CacheHit(cached)
       THEN call @@ [pc |-> "resolved", result |-> cached, invoked |-> FALSE, depsLeft |-> <<>>]
     ELSE IF init = Undefined
       THEN call @@ [pc |-> "rejected", result |-> ContainerMissingServiceError(service),
                     invoked |-> FALSE, depsLeft |-> <<>>]
     ELSE call @@ [pc |-> "awaiting", result |-> Undefined, invoked |-> TRUE,
                   depsLeft |-> init.deps]

\* history: a call for service starts while an earlier call for it has not settled
Overlaps(service) ==
  \E c \in 1..Len(calls) : calls[c].name = service /\ ~Settled(calls[c])

NoteOverlap(service) ==
  [overlapped EXCEPT ![service] = @ \/ Overlaps(service)]

\* outside code calls container.service(service)
ServiceCall(service) ==
  /\ Len(calls) < MaxCalls
  /\ calls' = Append(calls, ServiceStart(service, Main))
  /\ overlapped' = NoteOverlap(service)
  /\ UNCHANGED <<version, environment, initiator, cache, errorHandler, inv, lookup, notified>>

\* the initiator invoked by call c requests its next dependency
InitiatorRequest(c) ==
  /\ Len(calls) < MaxCalls
  /\ calls[c].pc = "awaiting" /\ calls[c].waiting = 0 /\ calls[c].depsLeft # <<>>
  /\ LET dep == Head(calls[c].depsLeft) IN
       /\ calls' = Append([calls EXCEPT ![c].waiting = Len(calls) + 1,
                                        ![c].depsLeft = Tail(@)],
                          ServiceStart(dep, ByInitiator(c)))
       /\ overlapped' = NoteOverlap(dep)
  /\ UNCHANGED <<version, environment, initiator, cache, errorHandler, inv, lookup, notified>>

\* the initiator invoked by call c resumes after the service it requested
\* settled; a failed request fails the initiator and, with it, call c
InitiatorResume(c) ==
  /\ calls[c].pc = "awaiting" /\ calls[c].waiting # 0
  /\ LET k == calls[c].waiting IN
       /\ Settled(calls[k])
       /\ calls' = IF calls[k].pc = "resolved"
                     THEN [calls EXCEPT ![c].waiting = 0]
                     ELSE [calls EXCEPT ![c].waiting = 0, ![c].pc = "rejected",
                                        ![c].result = calls[k].result]
  /\ UNCHANGED <<version, environment, initiator, cache, overlapped, errorHandler, inv, lookup,
      notified>>

\* what the promise of the initiator invoked by call c settles with: a new
\* instance, undefined, or a rejection
InitiatorOutcomes(c) ==
  {Returned(Instance(c)), Returned(Undefined), Thrown(ErrBoom)}

\* a container that stores the error of a failed initiator as the service
InitiatorSettleMemoizing(c) ==
  /\ calls[c].pc = "awaiting" /\ calls[c].waiting = 0 /\ calls[c].depsLeft = <<>>
  /\ \E o \in InitiatorOutcomes(c) :
       /\ calls' = [calls EXCEPT ![c].pc = IF o.thrown THEN "rejected" ELSE "constructed",
                                 ![c].result = o.val]
       /\ cache' = IF o.thrown THEN [cache EXCEPT ![calls[c].name] = o.val] ELSE cache
  /\ UNCHANGED <<version, environment, initiator, overlapped, errorHandler, inv, lookup,
      notified>>

\* the promise of the initiator invoked by call c settles
InitiatorSettle(c) ==
  /\ calls[c].pc = "awaiting" /\ calls[c].waiting = 0 /\ calls[c].depsLeft = <<>>
  /\ \E o \in InitiatorOutcomes(c) :
       calls' = [calls EXCEPT ![c].pc = IF o.thrown THEN "rejected" ELSE "constructed",
                              ![c].result = o.val]
  /\ UNCHANGED <<version, environment, initiator, cache, overlapped, errorHandler, inv, lookup,
      notified>>

\* a cache whose first entry for a name stays
CacheStoreOnce(service, constructed) ==
  IF cache[service] # Undefined THEN cache ELSE [cache EXCEPT ![service] = constructed]

\* a write that evicts the other services
CacheStoreEvicting(service, constructed) ==
  [n \in ServiceNames |-> IF n = service THEN constructed ELSE Undefined]

\* a write that is lost
CacheStoreNothing(service, constructed) ==
  cache

\* a write that fills every entry of the cache
CacheStoreAll(service, constructed) ==
  [n \in ServiceNames |-> constructed]

\* the cache after `this.cache[service] = constructed`
CacheStore(service, constructed) ==
  [cache EXCEPT ![service] = constructed]

\* Container.service, after its await: store what was constructed and return it
ServiceResume(c) ==
  /\ calls[c].pc = "constructed"
  /\ cache' = CacheStore(calls[c].name, calls[c].result)
  /\ calls' = [calls EXCEPT ![c].pc = "resolved"]
  /\ UNCHANGED <<version, environment, initiator, overlapped, errorHandler, inv, lookup,
      notified>>

-----------------------------------------------------------------------------
(* The request/response adapter.                                           *)

Versions ==
  {"Lambda.ts", "part_001"}

\* ResponseStatusCode
OK ==
  200

Created ==
  201

NoContent ==
  204

NotFound ==
  404

InternalServerError ==
  500

RequestContext ==
  Obj(<< <<TxtRequestId, Str(<<"r", "e", "q", "-", "1">>)>>, <<TxtStageKey, Str(<<"d", "e",
      "v">>)>> >>)

\* an APIGatewayProxyEvent
Event(headers, body, pathParameters, queryStringParameters, requestContext) ==
  [httpMethod |-> Str(<<"G", "E", "T">>), path |-> Str(<<"/", "x">>), headers |-> headers,
   pathParameters |-> pathParameters, queryStringParameters |-> queryStringParameters,
   body |-> body, requestContext |-> requestContext, multiValueHeaders |-> Obj(<<>>),
   isBase64Encoded |-> Bool(FALSE), resource |-> Str(<<"/", "{", "i", "d", "}">>),
       stageVariables |-> Null,
   multiValueQueryStringParameters |-> Null]

HeadersJson ==
  Obj(<< <<HeaderContentType, Str(TxtContentTypeJson)>> >>)

HeadersText ==
  Obj(<< <<HeaderContentType, Str(<<"t", "e", "x", "t", "/", "p", "l", "a", "i", "n">>)>> >>)

\* the events the platform sends, and events of other shapes (no headers, no
\* request context) that reach the wrapper when something else invokes it
EventHeaders ==
  {Obj(<<>>), HeadersJson, HeadersText, Undefined}

EventBodies ==
  {Null, Str(<<>>), Str(BodyValid), Str(BodyMalformed), Str(<<"{", "\"", "a", "\"", ":">>),
      Str(<<"4", "2">>)}

EventParameters ==
  {Null, Obj(<< <<<<"i", "d">>, Str(<<"7">>)>> >>)}

EventQueries ==
  {Null, Obj(<< <<<<"q">>, Str(<<"a">>)>> >>)}

EventContexts ==
  {RequestContext, Undefined}

Events ==
  {Event(h, b, p, q, c) : h \in EventHeaders, b \in EventBodies, p \in EventParameters,
                          q \in EventQueries, c \in EventContexts}

\* an event as the platform sends it: headers and request context present
WellTyped(event) ==
  HasProperties(event.headers) /\ HasProperties(event.requestContext)

\* a parse failure that leaves the raw text as the body
ParseBodyKeepsText(raw, default) ==
  LET OrText(parsed) == IF parsed.thrown THEN raw ELSE parsed.val IN
  IF raw.t = "string" /\ raw.v # <<>> THEN OrText(JSONparse(raw.v)) ELSE default

\* the try block of createLambdaRequest: a non-empty string body is parsed as
\* JSON, and a parse failure leaves the default
ParseBody(raw, default) ==
  LET OrDefault(parsed) == IF parsed.thrown THEN default ELSE parsed.val IN
  IF raw.t = "string" /\ raw.v # <<>> THEN OrDefault(JSONparse(raw.v)) ELSE default

\* parameters that are passed on as they came
NullKept(x) ==
  x

\* `x === null ? {} : x`
NullToEmpty(x) ==
  IF x = Null THEN Obj(<<>>) ELSE x

\* whether the body is parsed at all in src/src/Lambda.ts
IsJsonContent(headers) ==
  Get(headers, HeaderContentType) = Str(TxtContentTypeJson)

\* createLambdaRequest of src/src/Lambda.ts
createLambdaRequestLambdaTs(event) ==
  IF ~HasProperties(event.headers) THEN Thrown(TypeError(TxtCannotRead))
  ELSE Returned(
    [t |-> "request",
     httpMethod |-> event.httpMethod,
     pathParameters |-> NullToEmpty(event.pathParameters),
     queryStringParameters |-> NullToEmpty(event.queryStringParameters),
     body |-> IF IsJsonContent(event.headers) THEN ParseBody(event.body, Undefined)
              ELSE Undefined,
     path |-> event.path,
     headers |-> event.headers,
     multiValueHeaders |-> event.multiValueHeaders,
     isBase64Encoded |-> event.isBase64Encoded,
     requestContext |-> event.requestContext,
     resource |-> event.resource,
     stageVariables |-> event.stageVariables,
     multiValueQueryStringParameters |-> event.multiValueQueryStringParameters])

\* createLambdaRequest of src/unnamed/part_001
createLambdaRequestPart001(event) ==
  IF ~HasProperties(event.requestContext) THEN Thrown(TypeError(TxtCannotRead))
  ELSE Returned(
    [t |-> "request",
     id |-> Get(event.requestContext, TxtRequestId),
     stage |-> Get(event.requestContext, TxtStageKey),
     method |-> event.httpMethod,
     path |-> event.path,
     headers |-> event.headers,
     params |-> NullToEmpty(event.pathParameters),
     query |-> NullToEmpty(event.queryStringParameters),
     body |-> ParseBody(event.body, Obj(<<>>))])

\* createLambdaRequest of the revision that runs
createLambdaRequest(event) ==
  IF version = "Lambda.ts" THEN createLambdaRequestLambdaTs(event)
  ELSE createLambdaRequestPart001(event)

\* the body a request has when nothing was parsed
DefaultBody ==
  IF version = "Lambda.ts" THEN Undefined ELSE Obj(<<>>)

\* String(json.length)
ContentLength(json) ==
  NumberToString(StringLength(json))

\* headers without those of cross-origin access
ResponseHeadersBare(json) ==
  Obj(<< <<HeaderContentType, Str(TxtContentTypeJson)>>,
         <<<<"c","o","n","t","e","n","t","-","l","e","n","g","t","h">>,
             Str(ContentLength(json))>> >>)

\* the headers of every wire response
ResponseHeaders(json) ==
  Obj(<< <<HeaderContentType, Str(TxtContentTypeJson)>>,
         <<<<"c", "o", "n", "t", "e", "n", "t", "-", "l", "e", "n", "g", "t", "h">>,
             Str(ContentLength(json))>>,
         <<<<"a", "c", "c", "e", "s", "s", "-", "c", "o", "n", "t", "r", "o", "l", "-", "a", "l",
             "l", "o", "w", "-", "o", "r", "i", "g", "i", "n">>, Str(<<"*">>)>>,
         <<<<"a", "c", "c", "e", "s", "s", "-", "c", "o", "n", "t", "r", "o", "l", "-", "a", "l",
             "l", "o", "w", "-", "h", "e", "a", "d", "e", "r", "s">>, Str(<<"*">>)>>,
         <<<<"a", "c", "c", "e", "s", "s", "-", "c", "o", "n", "t", "r", "o", "l", "-", "a", "l",
             "l", "o", "w", "-", "m", "e", "t", "h", "o", "d", "s">>, Str(<<"*">>)>>,
         <<<<"a", "c", "c", "e", "s", "s", "-", "c", "o", "n", "t", "r", "o", "l", "-", "a", "l",
             "l", "o", "w", "-", "c", "r", "e", "d", "e", "n", "t", "i", "a", "l", "s">>,
             Str(<<"*">>)>> >>)

\* createLambdaProxyResponse(response)
createLambdaProxyResponse(response) ==
  LET Wire(json) ==
        IF json.thrown THEN json
        ELSE IF ~HasProperties(json.val) THEN Thrown(TypeError(TxtCannotRead))
        ELSE Returned([t |-> "wire", statusCode |-> Get(response, TxtStatus),
                       headers |-> ResponseHeaders(json.val.v), body |-> json.val])
  IN IF ~HasProperties(response) THEN Thrown(TypeError(TxtCannotRead))
     ELSE Wire(JSONstringify(Get(response, TxtData)))

\* a ResponseKind
Response(status, data) ==
  Obj(<< <<TxtStatus, Num(status)>>, <<TxtData, data>> >>)

\* what a handler resolves with: responses, a response without data, a response
\* whose data cannot be serialised, and nothing at all
Responses ==
  {Response(OK, Obj(<< <<<<"o", "k">>, Bool(TRUE)>> >>)),
   Response(Created, Obj(<< <<<<"u", "p", "l", "o", "a", "d", "_", "u", "r", "l">>,
       Str(<<"U+00E9", "U+20AC", "U+1F600", "\"">>)>> >>)),
   Response(NoContent, Undefined),
   Response(NotFound, Circular),
   Undefined}

-----------------------------------------------------------------------------
(* LambdaWrapper.                                                          *)

\* the functions registered as error handlers
ErrorHandlers ==
  {[t |-> "function", id |-> "log"], [t |-> "function", id |-> "alert"]}

Pending ==
  [state |-> "pending", val |-> Undefined]

Resolved(v) ==
  [state |-> "resolved", val |-> v]

Rejected(e) ==
  [state |-> "rejected", val |-> e]

\* how a handler ended: it returned v (its promise fulfils with v), its promise
\* rejected with v, or it threw v before it returned a promise
Outcome(kind, v) ==
  [kind |-> kind, val |-> v]

NoOutcome ==
  Outcome("none", Undefined)

\* an invocation the hosting runtime starts with event; phases lists the steps
\* of the wrapper it went through, result is the promise the runtime holds, eh
\* the promise of the error handler call it made
Invocation(mode, pc, event) ==
  [mode |-> mode, pc |-> pc, event |-> event, request |-> Undefined, awaiting |-> 0,
   awaited |-> FALSE, outcome |-> NoOutcome, caught |-> Undefined,
   phases |-> <<pc>>, result |-> Pending, eh |-> "none"]

\* the invocation rec moved to step pc
At(rec, pc) ==
  [rec EXCEPT !.pc = pc, !.phases = Append(@, pc)]

\* LambdaWrapper.registerErrorHandler(handler)
RegisterErrorHandler(handler) ==
  /\ version = "part_001"
  /\ errorHandler # handler
  /\ errorHandler' = handler
  /\ UNCHANGED <<version, environment, initiator, cache, calls, overlapped, inv, lookup,
                 notified>>

\* LambdaWrapper.handleError(error): the calls of the error handler it makes
handleError(i, error) ==
  IF errorHandler # Undefined
    THEN <<[inv |-> i, handler |-> errorHandler, error |-> error]>>
    ELSE <<>>

\* an error response whose stack is one entry
ErrorResponseUnsplit(error) ==
  Obj(<< <<TxtStatus, Num(500)>>,
         <<TxtType, Str(TxtInternalError)>>,
         <<TxtData, Obj(<< <<TxtName, ErrorName(error)>>,
                           <<TxtMessage, ErrorMessage(error)>>,
                           <<TxtStack, IF HasProperties(ErrorStack(error))
                                         THEN Arr(<<ErrorStack(error)>>)
                                         ELSE Arr(<<>>)>> >>)>> >>)

\* an error response that tells whether the container has built a service
ErrorResponseByCache(error) ==
  Obj(<< <<TxtStatus, Num(500)>>,
         <<TxtType, Str(TxtInternalError)>>,
         <<TxtData, Obj(<< <<TxtName, ErrorName(error)>>,
                           <<TxtMessage, ErrorMessage(error)>>,
                           <<TxtStack, Arr(<<>>)>>,
                           <<TxtBucket, Bool(\E n \in ServiceNames : cache[n] # Undefined)>> >>)>> >>)

\* the response the catch block of restApiProxy builds
ErrorResponse(error) ==
  Obj(<< <<TxtStatus, Num(500)>>,
         <<TxtType, Str(TxtInternalError)>>,
         <<TxtData, Obj(<< <<TxtName, ErrorName(error)>>,
                           <<TxtMessage, ErrorMessage(error)>>,
                           <<TxtStack, IF HasProperties(ErrorStack(error))
                                         THEN SplitLines(ErrorStack(error).v)
                                         ELSE Arr(<<>>)>> >>)>> >>)

\* a catch block that never calls the error handler
restApiProxyCatchSilent(i, caught) ==
  IF ~HasProperties(caught)
    THEN [thrown |-> TRUE, val |-> TypeError(TxtCannotRead), notes |-> <<>>]
    ELSE [thrown |-> FALSE, val |-> ErrorResponse(caught), notes |-> <<>>]

\* the catch block of restApiProxy, up to its return: reading a property of a
\* caught undefined throws out of the block; then the error handler is called,
\* and not awaited (part_001 only)
restApiProxyCatch(i, caught) ==
  IF ~HasProperties(caught)
    THEN [thrown |-> TRUE, val |-> TypeError(TxtCannotRead), notes |-> <<>>]
    ELSE [thrown |-> FALSE, val |-> ErrorResponse(caught),
          notes |-> IF version = "part_001" THEN handleError(i, caught) ELSE <<>>]

\* restApiProxy from its catch of caught to its end: the invocation rec ends
\* with the encoded error response, or fails with what the catch block throws
Caught(i, rec, caught) ==
  LET Encoded(at, c, r) ==
        [inv |-> [At(At(at, "Encoding"), IF r.thrown THEN "Failed" ELSE "Done") EXCEPT
                    !.result = IF r.thrown THEN Rejected(r.val) ELSE Resolved(r.val),
                    !.eh = IF c.notes # <<>> THEN "pending" ELSE @],
         notes |-> c.notes]
      Built(at, c) ==
        IF c.thrown
          THEN [inv |-> [At(at, "Failed") EXCEPT !.result = Rejected(c.val)], notes |-> <<>>]
          ELSE Encoded(at, c, createLambdaProxyResponse(c.val))
  IN Built([At(rec, "ErrorCaught") EXCEPT !.caught = caught], restApiProxyCatch(i, caught))

\* a wrapper that encodes the handler's response outside its try block: what
\* the encoding throws rejects the promise the runtime holds
restApiProxyAfterUnguarded(i, o) ==
  LET Ended(rec, failed, v) ==
        IF failed
          THEN [inv |-> [At(rec, "Failed") EXCEPT !.result = Rejected(v)], notes |-> <<>>]
          ELSE [inv |-> [At(rec, "Done") EXCEPT !.result = Resolved(v)], notes |-> <<>>]
      Encoded(rec, r) == Ended(At(rec, "Encoding"), r.thrown, r.val)
      Returns(rec) ==
        IF o.kind # "return" THEN Caught(i, rec, o.val)
        ELSE Encoded(rec, createLambdaProxyResponse(o.val))
  IN Returns([inv[i] EXCEPT !.outcome = o, !.awaited = FALSE])

\* restApiProxy from the end of its handler on: a response is encoded and
\* returned; what the handler threw or rejected with, and what encoding its
\* response throws, is caught
restApiProxyAfter(i, o) ==
  LET Ended(rec, failed, v) ==
        IF failed THEN Caught(i, rec, v)
        ELSE [inv |-> [At(rec, "Done") EXCEPT !.result = Resolved(v)], notes |-> <<>>]
      Encoded(rec, r) == Ended(At(rec, "Encoding"), r.thrown, r.val)
      Returns(rec) ==
        IF o.kind # "return" THEN Ended(rec, TRUE, o.val)
        ELSE Encoded(rec, createLambdaProxyResponse(o.val))
  IN Returns([inv[i] EXCEPT !.outcome = o, !.awaited = FALSE])

\* the runtime invokes the function restApiProxy returned: the event is decoded
\* and the handler called with the request
restApiProxyCall(event) ==
  /\ \E rec \in {Invocation("http", "Decoding", event)}, r \in {createLambdaRequest(event)} :
       IF r.thrown
         THEN \E a \in {Caught(Len(inv) + 1, rec, r.val)} :
                inv' = Append(inv, a.inv) /\ notified' = notified \o a.notes
         ELSE /\ inv' = Append(inv, [At(rec, "Invoking") EXCEPT !.request = r.val])
              /\ UNCHANGED notified
  /\ UNCHANGED <<version, environment, initiator, cache, calls, overlapped, errorHandler,
                 lookup>>

\* the invocations of a behaviour are bounded
ProxyReceive(event) ==
  Len(inv) < MaxInvocations /\ restApiProxyCall(event)

\* createLambdaRequest applied to the event of an invocation
Decode(i) ==
  /\ inv[i].pc = "Decoding"
  /\ \E r \in {createLambdaRequest(inv[i].event)} :
       inv' = [inv EXCEPT ![i] = IF r.thrown
                                   THEN [At(@, "ErrorCaught") EXCEPT !.caught = r.val]
                                   ELSE [At(@, "Invoking") EXCEPT !.request = r.val]]
  /\ UNCHANGED <<version, environment, initiator, cache, calls, overlapped, errorHandler,
                 lookup, notified>>

\* the runtime invokes the function handle returned: the handler is called with
\* the raw event
HandleReceive(event) ==
  /\ Len(inv) < MaxInvocations
  /\ inv' = Append(inv, [Invocation("raw", "Invoking", event) EXCEPT !.request = event])
  /\ UNCHANGED <<version, environment, initiator, cache, calls, overlapped, errorHandler,
                 lookup, notified>>

\* handle of part_001 from the end of its handler on: `return handler(...)`
\* inside try catches what the handler throws before it returns a promise, not
\* what that promise rejects with
handlePart001(i, o) ==
  LET notes == IF o.kind = "throw" THEN handleError(i, o.val) ELSE <<>> IN
  [inv |-> [At(inv[i], IF o.kind = "return" THEN "Done" ELSE "Failed") EXCEPT
              !.outcome = o, !.awaited = FALSE,
              !.caught = IF o.kind = "throw" THEN o.val ELSE @,
              !.eh = IF notes # <<>> THEN "pending" ELSE @,
              !.result = IF o.kind = "return" THEN Resolved(o.val) ELSE Rejected(o.val)],
   notes |-> notes]

\* handle of src/src/Lambda.ts from the end of its handler on
handleLambdaTs(i, o) ==
  [inv |-> [At(inv[i], IF o.kind = "return" THEN "Done" ELSE "Failed") EXCEPT
              !.outcome = o, !.awaited = FALSE,
              !.result = IF o.kind = "return" THEN Resolved(o.val) ELSE Rejected(o.val)],
   notes |-> <<>>]

\* handle of the revision that runs
handle(i, o) ==
  IF version = "part_001" THEN handlePart001(i, o) ELSE handleLambdaTs(i, o)

\* the wrapper after the handler of invocation i ended with o
AfterHandler(i, o) ==
  IF inv[i].mode = "http" THEN restApiProxyAfter(i, o) ELSE handle(i, o)

Running(i) ==
  inv[i].pc = "Invoking" /\ inv[i].awaiting = 0

\* the kinds of failure open to a handler: it can throw only before its first await
FailureKinds(i) ==
  IF inv[i].awaited THEN {"reject"} ELSE {"reject", "throw"}

\* the handler awaits container.service(service)
HandlerService(i, service) ==
  /\ Running(i) /\ ~inv[i].awaited
  /\ Len(calls) < MaxCalls
  /\ calls' = Append(calls, ServiceStart(service, ByHandler(i)))
  /\ overlapped' = NoteOverlap(service)
  /\ inv' = [inv EXCEPT ![i].awaiting = Len(calls) + 1, ![i].awaited = TRUE]
  /\ UNCHANGED <<version, environment, initiator, cache, errorHandler, lookup, notified>>

\* the handler resumes after the service it awaited settled; a failure it does
\* not catch rejects its promise
HandlerResume(i) ==
  /\ inv[i].pc = "Invoking" /\ inv[i].awaiting # 0
  /\ \E k \in {inv[i].awaiting} :
       /\ Settled(calls[k])
       /\ IF calls[k].pc = "resolved"
            THEN inv' = [inv EXCEPT ![i].awaiting = 0] /\ UNCHANGED notified
            ELSE \E a \in {AfterHandler(i, Outcome("reject", calls[k].result))} :
                   /\ inv' = [inv EXCEPT ![i] = [a.inv EXCEPT !.awaiting = 0]]
                   /\ notified' = notified \o a.notes
  /\ UNCHANGED <<version, environment, initiator, cache, calls, overlapped, errorHandler,
                 lookup>>

\* the handler reads container.env(key); a missing variable it does not catch
\* ends it
HandlerEnv(i, key) ==
  /\ Running(i)
  /\ \E r \in {ContainerEnv(key)} :
       IF r.thrown
         THEN \E kind \in FailureKinds(i) :
                \E a \in {AfterHandler(i, Outcome(kind, r.val))} :
                  /\ inv' = [inv EXCEPT ![i] = a.inv]
                  /\ notified' = notified \o a.notes
         ELSE UNCHANGED <<inv, notified>>
  /\ UNCHANGED <<version, environment, initiator, cache, calls, overlapped, errorHandler,
                 lookup>>

\* what the handlers of the wrapper specifications resolve with: a response, and
\* a response without data
HandlerResponses ==
  {Response(OK, Obj(<< <<<<"o", "k">>, Bool(TRUE)>> >>)), Response(NoContent, Undefined)}

\* the services they request: one with an initiator, one without
HandlerServices ==
  {"aws.s3", "queue"}

\* the ways a handler ends by itself
HandlerOutcomes(i) ==
  {Outcome("return", r) : r \in HandlerResponses}
    \cup {Outcome(kind, e) : kind \in FailureKinds(i), e \in Throwables}

\* the handler ends
HandlerSettle(i, o) ==
  /\ Running(i)
  /\ \E a \in {AfterHandler(i, o)} :
       /\ inv' = [inv EXCEPT ![i] = a.inv]
       /\ notified' = notified \o a.notes
  /\ UNCHANGED <<version, environment, initiator, cache, calls, overlapped, errorHandler,
                 lookup>>

\* the promise of an error handler call settles; nothing awaits it
ErrorHandlerSettle(i) ==
  /\ inv[i].eh = "pending"
  /\ \E s \in {"fulfilled", "rejected"} : inv' = [inv EXCEPT ![i].eh = s]
  /\ UNCHANGED <<version, environment, initiator, cache, calls, overlapped, errorHandler,
                 lookup, notified>>

\* outside code reads container.env(key)
EnvLookup(key) ==
  /\ lookup' = [key |-> key, outcome |-> ContainerEnv(key)]
  /\ UNCHANGED <<version, environment, initiator, cache, calls, overlapped, errorHandler,
                 inv, notified>>

-----------------------------------------------------------------------------
(* Specifications.                                                         *)

NoLookup ==
  [key |-> "", outcome |-> Returned(Undefined)]

\* the state after `new Container(environment, initiator)` and
\* `new LambdaWrapper(container)`
Constructed ==
  /\ cache = [n \in ServiceNames |-> Undefined]
  /\ calls = <<>>
  /\ overlapped = [n \in ServiceNames |-> FALSE]
  /\ errorHandler = Undefined
  /\ inv = <<>>
  /\ lookup = NoLookup
  /\ notified = <<>>

\* the container, called by outside code
Init ==
  /\ version = "part_001"
  /\ environment \in Searches
  /\ initiator \in InitiatorMaps
  /\ Constructed

ContainerStep ==
  \/ \E c \in 1..Len(calls) : InitiatorRequest(c)
  \/ \E c \in 1..Len(calls) : InitiatorResume(c)
  \/ \E c \in 1..Len(calls) : InitiatorSettle(c)
  \/ \E c \in 1..Len(calls) : ServiceResume(c)

Next ==
  \/ \E service \in ServiceNames : ServiceCall(service)
  \/ \E key \in EnvKeys : EnvLookup(key)
  \/ ContainerStep

Spec ==
  Init /\ [][Next]_vars

\* the events the wrapper is invoked with: a request as the platform sends it,
\* and an event without headers or request context
ProxyEvents ==
  {Event(HeadersJson, Str(BodyValid), Null, Null, RequestContext),
   Event(Undefined, Null, Null, Null, Undefined)}

\* the wrapper over the container of example/handler.ts, whose only initiator is
\* that of "aws.s3"
InitWrapper ==
  /\ version \in Versions
  /\ environment = [k \in EnvKeys |-> IF k = "MY_S3_BUCKET" THEN Str(TxtBucket) ELSE Undefined]
  /\ initiator = [n \in ServiceNames |-> IF n = "aws.s3" THEN Initiator(<<>>) ELSE Undefined]
  /\ Constructed

HandlerStep ==
  \/ \E i \in 1..Len(inv), service \in HandlerServices : HandlerService(i, service)
  \/ \E i \in 1..Len(inv) : HandlerResume(i)
  \/ \E i \in 1..Len(inv), key \in EnvKeys : HandlerEnv(i, key)
  \/ \E i \in 1..Len(inv) : \E o \in HandlerOutcomes(i) : HandlerSettle(i, o)
  \/ \E i \in 1..Len(inv) : ErrorHandlerSettle(i)
  \/ \E handler \in ErrorHandlers : RegisterErrorHandler(handler)
  \/ \E c \in 1..Len(calls) : InitiatorSettle(c)
  \/ \E c \in 1..Len(calls) : ServiceResume(c)

\* the HTTP path
NextProxy ==
  \/ \E event \in ProxyEvents : ProxyReceive(event)
  \/ HandlerStep

SpecProxy ==
  InitWrapper /\ [][NextProxy]_vars

\* the raw-event path
NextHandle ==
  \/ \E event \in ProxyEvents : HandleReceive(event)
  \/ HandlerStep

SpecHandle ==
  InitWrapper /\ [][NextHandle]_vars

\* the decoder alone, applied to every event
InitDecode ==
  /\ version \in Versions
  /\ environment = [k \in EnvKeys |-> Undefined]
  /\ initiator = [n \in ServiceNames |-> Undefined]
  /\ cache = [n \in ServiceNames |-> Undefined]
  /\ calls = <<>>
  /\ overlapped = [n \in ServiceNames |-> FALSE]
  /\ errorHandler = Undefined
  /\ \E event \in Events : inv = <<Invocation("http", "Decoding", event)>>
  /\ lookup = NoLookup
  /\ notified = <<>>

NextDecode ==
  \E i \in 1..Len(inv) : Decode(i)

SpecDecode ==
  InitDecode /\ [][NextDecode]_vars

\* the encoder, applied to what a handler can end with: every status of
\* ResponseStatusCode with payloads of every JSON kind, among them text outside
\* ASCII, payloads JSON.stringify has no text for, and the failures
ResponseData ==
  {Obj(<< <<<<"o", "k">>, Bool(TRUE)>> >>),
   Obj(<< <<<<"n">>, Num(42)>>, <<<<"x">>, Undefined>>,
          <<<<"l">>, Arr(<<Null, Str(<<"a">>), Undefined>>)>> >>),
   Obj(<<>>),
   Arr(<<>>),
   Arr(<<Num(1), Bool(FALSE)>>),
   Str(<<>>),
   Str(<<"a", "\"", "\\", "b">>),
   Str(<<"U+00E9">>),
   Str(<<"c", "a", "f", "U+00E9", " ", "U+20AC", "U+1F600">>),
   Num(0),
   Null,
   Undefined,
   Circular}

EncodeResponses ==
  {Response(status, data) : status \in {OK, Created, NoContent, NotFound, InternalServerError},
                            data \in ResponseData} \cup Responses

InitEncode ==
  /\ version \in Versions
  /\ environment = [k \in EnvKeys |-> Undefined]
  /\ initiator = [n \in ServiceNames |-> Undefined]
  /\ Constructed

NextEncode ==
  \/ \E event \in ProxyEvents : ProxyReceive(event)
  \/ \E i \in 1..Len(inv), r \in EncodeResponses : HandlerSettle(i, Outcome("return", r))
  \/ \E i \in 1..Len(inv), kind \in {"reject", "throw"}, e \in Throwables :
       HandlerSettle(i, Outcome(kind, e))

SpecEncode ==
  InitEncode /\ [][NextEncode]_vars

\* two invocations of one wrapper more than MaxInvocations allows, while outside
\* code registers error handlers and makes one call that fills the cache
NextPair ==
  \/ \E event \in ProxyEvents : Len(inv) < MaxInvocations + 1 /\ restApiProxyCall(event)
  \/ \E i \in 1..Len(inv), r \in HandlerResponses : HandlerSettle(i, Outcome("return", r))
  \/ \E i \in 1..Len(inv), kind \in {"reject", "throw"}, e \in {ErrBoom, ErrNoStack} :
       HandlerSettle(i, Outcome(kind, e))
  \/ \E handler \in ErrorHandlers : RegisterErrorHandler(handler)
  \/ calls = <<>> /\ ServiceCall("aws.s3")
  \/ \E c \in 1..Len(calls) : InitiatorSettle(c)
  \/ \E c \in 1..Len(calls) : ServiceResume(c)

SpecPair ==
  InitWrapper /\ [][NextPair]_vars

\* the HTTP path with the scheduling of the event loop: service() continues
\* once the initiator it awaits has resolved. Nothing makes a handler, an
\* initiator or an error handler settle, and the wrapper's own continuation is
\* part of the step in which its handler ends
SpecProxyFair ==
  SpecProxy /\ WF_vars(\E c \in 1..Len(calls) : ServiceResume(c))

\* the services the initiator of n requests
Requests(n) ==
  IF initiator[n] = Undefined THEN {}
  ELSE {initiator[n].deps[k] : k \in 1..Len(initiator[n].deps)}

\* the services reached from those of the set names in at most k requests
RECURSIVE Reached(_, _)
Reached(names, k) ==
  IF k = 0 THEN names
  ELSE Reached(names \cup UNION {Requests(n) : n \in names}, k - 1)

\* a service whose initiator comes to request that service itself
OnCycle(n) ==
  n \in Reached(Requests(n), Cardinality(ServiceNames))

Cyclic ==
  \E n \in ServiceNames : OnCycle(n)

\* the calls one call of service(n) makes at most, while nothing is cached and
\* no initiator is on a cycle
RECURSIVE Needs(_)
Needs(n) ==
  IF initiator[n] = Undefined THEN 1
  ELSE LET deps == initiator[n].deps
           RECURSIVE Total(_)
           Total(k) == IF k = 0 THEN 0 ELSE Needs(deps[k]) + Total(k - 1)
       IN 1 + Total(Len(deps))

\* outside code that calls service() again only after its last call settled,
\* within the bound on calls; with a cycle among the initiators it calls once
Room(service) ==
  IF Cyclic THEN calls = <<>>
  ELSE /\ \A c \in 1..Len(calls) : Settled(calls[c])
       /\ Len(calls) + Needs(service) <= MaxCalls

NextSequential ==
  \/ \E service \in ServiceNames : Room(service) /\ ServiceCall(service)
  \/ ContainerStep

\* the container with the scheduling of the event loop, and with initiators
\* whose own work ends: a continuation whose awaited promise has settled is run,
\* and an initiator that is not waiting for a service settles
SpecSequential ==
  /\ Init /\ [][NextSequential]_vars
  /\ WF_vars(\E c \in 1..Len(calls) : InitiatorRequest(c))
  /\ WF_vars(\E c \in 1..Len(calls) : InitiatorResume(c))
  /\ WF_vars(\E c \in 1..Len(calls) : InitiatorSettle(c))
  /\ WF_vars(\E c \in 1..Len(calls) : ServiceResume(c))

-----------------------------------------------------------------------------
(* Properties of the container.                                            *)

CallsFor(service) ==
  {c \in 1..Len(calls) : calls[c].name = service}

IsInstance(v) ==
  v.t = "instance"

\* C1 as stated: for every name with an initiator whose service() calls never
\* overlapped, the initiator was invoked at most once and all the calls that
\* returned, returned the same instance.
C1_InvokedAtMostOnce ==
  \A n \in ServiceNames :
    (initiator[n] # Undefined /\ ~overlapped[n]) =>
      /\ Cardinality({c \in CallsFor(n) : calls[c].invoked}) <= 1
      /\ \A c1, c2 \in CallsFor(n) :
           (calls[c1].pc = "resolved" /\ calls[c2].pc = "resolved") =>
             calls[c1].result = calls[c2].result

\* C1, amended: among calls for one name that never overlapped, once a call has
\* returned an instance other than undefined, no later call invokes the
\* initiator and every later call returns that identical instance.
C1_MemoizedOnceConstructed ==
  \A n \in ServiceNames : \A c1, c2 \in CallsFor(n) :
    (/\ ~overlapped[n]
     /\ c1 < c2
     /\ calls[c1].pc = "resolved"
     /\ calls[c1].result # Undefined) =>
      /\ ~calls[c2].invoked
      /\ calls[c2].pc = "resolved"
      /\ calls[c2].result = calls[c1].result

\* a second call, made after the first constructed its instance, returned that
\* instance without invoking the initiator
C1_Witness ==
  \E n \in ServiceNames : \E c1, c2 \in CallsFor(n) :
    /\ ~overlapped[n] /\ c1 < c2
    /\ calls[c1].invoked /\ calls[c1].pc = "resolved" /\ IsInstance(calls[c1].result)
    /\ ~calls[c2].invoked /\ calls[c2].pc = "resolved"
    /\ calls[c2].result = calls[c1].result

\* C2: nothing but the cache test guards the initiator, and every call that
\* constructed writes the cache: a call invokes the initiator exactly when the
\* cache holds nothing for the name and an initiator exists, whatever calls are
\* in flight, and when a call resumes after its await the cache holds what that
\* call constructed, whatever it held before.
C2_UnguardedConstruction ==
  [][/\ \A c \in 1..Len(calls') :
          c > Len(calls) =>
            (calls'[c].invoked <=>
               (cache[calls'[c].name] = Undefined /\ initiator[calls'[c].name] # Undefined))
     /\ \A c \in 1..Len(calls) :
          (calls[c].pc = "constructed" /\ calls'[c].pc = "resolved") =>
            /\ cache'[calls[c].name] = calls[c].result
            /\ calls'[c].result = calls[c].result]_vars

\* two overlapping calls for one name each invoked the initiator and hold
\* different instances; the cache holds the instance of the call that wrote
\* last, here the one that started first
C2_Witness ==
  \E n \in ServiceNames : \E c1, c2 \in CallsFor(n) :
    /\ c1 < c2
    /\ calls[c1].invoked /\ calls[c2].invoked
    /\ calls[c1].pc = "resolved" /\ calls[c2].pc = "resolved"
    /\ IsInstance(calls[c1].result) /\ IsInstance(calls[c2].result)
    /\ calls[c1].result # calls[c2].result
    /\ cache[n] = calls[c1].result

InvokedCalls(cs) ==
  {c \in 1..Len(cs) : cs[c].invoked}

\* C3: a service() call for a name without an initiator fails with the
\* ContainerMissingServiceInitiatorError, invokes no initiator and leaves the
\* cache as it was.
C3_MissingInitiator ==
  [][\A c \in 1..Len(calls') :
       (c > Len(calls) /\ initiator[calls'[c].name] = Undefined) =>
         /\ calls'[c].pc = "rejected"
         /\ calls'[c].result.t = "error"
         /\ calls'[c].result.name = Str(ContainerMissingServiceErrorName)
         /\ InvokedCalls(calls') = InvokedCalls(calls)
         /\ cache' = cache]_vars

C3_Witness ==
  \E c \in 1..Len(calls) :
    /\ initiator[calls[c].name] = Undefined
    /\ calls[c].pc = "rejected"
    /\ calls[c].result.name = Str(ContainerMissingServiceErrorName)

\* C8: a lookup of a key whose value is defined returns that value, a lookup of
\* a key whose value is undefined fails with the MissingEnvironmentVariableError;
\* no step changes the environment; the names of the two error kinds differ.
C8_EnvironmentLookup ==
  [][/\ environment' = environment
     /\ lookup' # lookup =>
          LET value == environment[lookup'.key] IN
          IF value # Undefined
            THEN lookup'.outcome = Returned(value)
            ELSE /\ lookup'.outcome.thrown
                 /\ lookup'.outcome.val.t = "error"
                 /\ lookup'.outcome.val.name = Str(MissingEnvironmentVariableErrorName)
     /\ MissingEnvironmentVariableErrorName # ContainerMissingServiceErrorName]_vars

\* a lookup of a key without a value failed with the MissingEnvironmentVariableError
C8_Witness ==
  /\ lookup.key = "MY_S3_BUCKET"
  /\ environment["MY_S3_BUCKET"] = Undefined
  /\ lookup.outcome.thrown
  /\ lookup.outcome.val.name = Str(MissingEnvironmentVariableErrorName)

-----------------------------------------------------------------------------
(* Properties of the wrapper.                                              *)

\* whether the invocation rec went through step pc
Went(rec, pc) ==
  \E k \in DOMAIN rec.phases : rec.phases[k] = pc

Http ==
  {i \in 1..Len(inv) : inv[i].mode = "http"}

\* C4 as stated: on the HTTP path nothing propagates to the hosting runtime;
\* whatever decoding, a container lookup or the handler throws or rejects with
\* ends in a resolved response with status 500.
C4_EveryFailureBecomes500 ==
  \A i \in Http :
    /\ inv[i].result.state # "rejected"
    /\ (Went(inv[i], "ErrorCaught") /\ inv[i].pc # "ErrorCaught") =>
         /\ inv[i].result.state = "resolved"
         /\ inv[i].result.val.statusCode = Num(InternalServerError)

\* C5 as stated: on the raw-event path a failure of the handler is rethrown
\* unchanged to the runtime and, when an error handler is registered, that
\* handler is called with the error.
C5_NotifiedThenRethrown ==
  [][\A i \in 1..Len(inv) :
       (inv[i].mode = "raw" /\ inv[i].pc = "Invoking" /\ inv'[i].pc = "Failed") =>
         /\ inv'[i].result = Rejected(inv'[i].outcome.val)
         /\ errorHandler # Undefined =>
              notified' = Append(notified, [inv |-> i, handler |-> errorHandler,
                                            error |-> inv'[i].outcome.val])]_vars

JoinLines(lines) ==
  Flatten([k \in 1..Len(lines) |-> IF k = 1 THEN lines[k].v ELSE <<"\n">> \o lines[k].v],
          1, Len(lines))

\* whether lines is text split at its line breaks
IsSplitOf(lines, text) ==
  /\ JoinLines(lines) = text
  /\ \A k \in DOMAIN lines : \A j \in DOMAIN lines[k].v : lines[k].v[j] # "\n"

\* whether wire is the 500 response that carries the error e: its body is the
\* JSON text of an object with e's name, e's message and, as stack, the lines of
\* e's stack, or the empty list when e has no stack
CarriesError(wire, e) ==
  /\ wire.statusCode = Num(InternalServerError)
  /\ wire.body.t = "string"
  /\ \E parsed \in {JSONparse(wire.body.v)} :
       /\ ~parsed.thrown
       /\ parsed.val.t = "object"
       /\ Len(parsed.val.v) = 3
       /\ Get(parsed.val, TxtName) = e.name
       /\ Get(parsed.val, TxtMessage) = e.message
       /\ \E stack \in {Get(parsed.val, TxtStack)} :
            /\ stack.t = "array"
            /\ IF e.stack = Undefined THEN stack.v = <<>>
                 ELSE IsSplitOf(stack.v, e.stack.v)

\* C7: when the handler of an HTTP invocation throws or rejects with an error
\* e, the invocation resolves with status 500 and a body that is the JSON text
\* of an object with e's name, e's message and, as stack, e's stack split into
\* its lines, or the empty list when e has no stack.
C7_ErrorPayload ==
  \A i \in Http :
    (inv[i].outcome.kind \in {"throw", "reject"} /\ inv[i].outcome.val.t = "error") =>
      /\ inv[i].result.state = "resolved"
      /\ CarriesError(inv[i].result.val, inv[i].outcome.val)

\* the handler failed with Error("boom"), whose stack has several lines
C7_Witness ==
  \E i \in Http :
    /\ inv[i].outcome.val = ErrBoom
    /\ inv[i].result.state = "resolved"
    /\ Get(JSONparse(inv[i].result.val.body.v).val, TxtMessage) = Str(TxtBoom)
    /\ Len(Get(JSONparse(inv[i].result.val.body.v).val, TxtStack).v) > 1

\* whether the body of event is a non-empty string that is not JSON
MalformedBody(event) ==
  /\ event.body.t = "string"
  /\ event.body.v # <<>>
  /\ JSONparse(event.body.v).thrown

\* C9: an event that declares JSON content and whose body is not valid JSON is
\* decoded without an error, into a request whose body is the default.
C9_MalformedBodyIsDefault ==
  \A i \in Http :
    (/\ inv[i].pc # "Decoding"
     /\ WellTyped(inv[i].event)
     /\ IsJsonContent(inv[i].event.headers)
     /\ MalformedBody(inv[i].event)) =>
      /\ inv[i].pc = "Invoking"
      /\ inv[i].request.body = DefaultBody

C9_Witness ==
  \E i \in Http :
    /\ WellTyped(inv[i].event)
    /\ IsJsonContent(inv[i].event.headers)
    /\ inv[i].event.body = Str(BodyMalformed)
    /\ inv[i].pc = "Invoking"
    /\ inv[i].request.body = DefaultBody

\* C10 as stated: an event that does not declare JSON content is decoded into a
\* request whose body is the default, whatever its body holds.
C10_OnlyJsonIsParsed ==
  \A i \in Http :
    (/\ inv[i].pc = "Invoking"
     /\ HasProperties(inv[i].event.headers)
     /\ ~IsJsonContent(inv[i].event.headers)) =>
      inv[i].request.body = DefaultBody

(* Properties of the decoded request. *)

\* the request fields that hold the path parameters, the query parameters and
\* the method: the two revisions name them differently
ParamsOf(request) ==
  IF version = "Lambda.ts" THEN request.pathParameters ELSE request.params

QueryOf(request) ==
  IF version = "Lambda.ts" THEN request.queryStringParameters ELSE request.query

MethodOf(request) ==
  IF version = "Lambda.ts" THEN request.httpMethod ELSE request.method

\* what a mapping of the event must have become in the request
CopiedOrEmpty(given, got) ==
  /\ got # Null /\ got.t = "object"
  /\ given = Null => got = Obj(<<>>)
  /\ given # Null => got = given

\* C11: a decoded request has path parameters and query parameters that are
\* mappings and never null: null in the event became the empty mapping, anything
\* else was copied as it was; method, path and headers are those of the event
C11_ParametersNeverNull ==
  \A i \in 1..Len(inv) :
    Went(inv[i], "Invoking") =>
      /\ CopiedOrEmpty(inv[i].event.pathParameters, ParamsOf(inv[i].request))
      /\ CopiedOrEmpty(inv[i].event.queryStringParameters, QueryOf(inv[i].request))
      /\ MethodOf(inv[i].request) = inv[i].event.httpMethod
      /\ inv[i].request.path = inv[i].event.path
      /\ inv[i].request.headers = inv[i].event.headers

\* an event with null path parameters and a query was decoded
C11_Witness ==
  \E i \in 1..Len(inv) :
    /\ Went(inv[i], "Invoking")
    /\ inv[i].event.pathParameters = Null
    /\ inv[i].event.queryStringParameters # Null
    /\ ParamsOf(inv[i].request) = Obj(<<>>)
    /\ QueryOf(inv[i].request) = inv[i].event.queryStringParameters

(* Properties of the wire response. *)

\* the wire response an HTTP invocation returned
Wire(i) ==
  inv[i].result.val

Returned200(i) ==
  inv[i].mode = "http" /\ inv[i].pc = "Done" /\ inv[i].result.state = "resolved"

ContentLengthOf(wire) ==
  Get(wire.headers, <<"c", "o", "n", "t", "e", "n", "t", "-", "l", "e", "n", "g", "t", "h">>)

\* C12: the content-length header of every wire response is the number of bytes
\* of its body, whatever characters the body holds
C12_ContentLengthIsByteLength ==
  \A i \in 1..Len(inv) :
    Returned200(i) => ContentLengthOf(Wire(i)) = Str(NumberToString(ByteLength(Wire(i).body.v)))

\* what does hold: the header is the number of UTF-16 code units of the body
C12_ContentLengthIsStringLength ==
  \A i \in 1..Len(inv) :
    Returned200(i) =>
      ContentLengthOf(Wire(i)) = Str(NumberToString(StringLength(Wire(i).body.v)))

\* the headers every wire response carries with a fixed value
FixedHeaders ==
  {<<HeaderContentType, Str(TxtContentTypeJson)>>,
   <<<<"a","c","c","e","s","s","-","c","o","n","t","r","o","l","-","a","l","l","o","w","-","o",
      "r","i","g","i","n">>, Str(<<"*">>)>>,
   <<<<"a","c","c","e","s","s","-","c","o","n","t","r","o","l","-","a","l","l","o","w","-","h",
      "e","a","d","e","r","s">>, Str(<<"*">>)>>,
   <<<<"a","c","c","e","s","s","-","c","o","n","t","r","o","l","-","a","l","l","o","w","-","m",
      "e","t","h","o","d","s">>, Str(<<"*">>)>>,
   <<<<"a","c","c","e","s","s","-","c","o","n","t","r","o","l","-","a","l","l","o","w","-","c",
      "r","e","d","e","n","t","i","a","l","s">>, Str(<<"*">>)>>}

\* the response a wire response was encoded from: that of the handler, or the
\* error response of the catch block
EncodedFrom(i) ==
  IF Went(inv[i], "ErrorCaught") THEN ErrorResponse(inv[i].caught) ELSE inv[i].outcome.val

\* C13: every wire response of the HTTP path, built from a handler's response or
\* from a caught error, has the status of that response as its statusCode, the
\* JSON text of its data as its body, and exactly six headers: content-type
\* application/json, content-length, and the four access-control-allow headers
\* with the value *
C13_WireResponseShape ==
  \A i \in 1..Len(inv) :
    Returned200(i) =>
      /\ Wire(i).statusCode = Get(EncodedFrom(i), TxtStatus)
      /\ Went(inv[i], "ErrorCaught") => Wire(i).statusCode = Num(InternalServerError)
      /\ Returned(Wire(i).body) = JSONstringify(Get(EncodedFrom(i), TxtData))
      /\ Len(Wire(i).headers.v) = 6
      /\ \A h \in FixedHeaders : Get(Wire(i).headers, h[1]) = h[2]
      /\ ContentLengthOf(Wire(i)).t = "string"

\* the error response built for a rejected handler was encoded and returned
C13_Witness ==
  \E i \in 1..Len(inv) :
    /\ Returned200(i) /\ Went(inv[i], "ErrorCaught") /\ inv[i].outcome.kind = "reject"
    /\ Wire(i).statusCode = Num(InternalServerError)

Finished(i) ==
  inv[i].pc \in {"Done", "Failed"}

\* C14: two HTTP invocations with the same event whose handlers behaved the same
\* (were not called, or ended the same way with the same value) hand the runtime
\* the same result: the same status code, headers and body, whatever the cache
\* held, whichever error handler was registered and whatever ran in between
C14_SameInputSameResponse ==
  \A i, j \in 1..Len(inv) :
    ( /\ inv[i].mode = "http" /\ inv[j].mode = "http"
      /\ Finished(i) /\ Finished(j)
      /\ inv[i].event = inv[j].event
      /\ inv[i].outcome = inv[j].outcome )
    => inv[i].result = inv[j].result

\* two invocations with the same event whose handlers rejected with the same
\* error returned; an error handler was registered only after the first had
\* ended, and the cache holds a service by now
C14_Witness ==
  /\ Len(inv) >= 2
  /\ Returned200(1) /\ Returned200(2)
  /\ inv[1].event = inv[2].event
  /\ inv[1].outcome = Outcome("reject", ErrBoom) /\ inv[2].outcome = inv[1].outcome
  /\ Len(notified) = 1 /\ notified[1].inv = 2
  /\ cache["aws.s3"] # Undefined
  /\ Wire(1) = Wire(2)

(* The steps of an HTTP invocation. *)

\* the moves from step to step the wrapper is described with; encoding the
\* handler's response can fail too, and that is caught like any other failure
StepOrder ==
  {<<"Decoding", "Invoking">>, <<"Invoking", "Encoding">>, <<"Encoding", "Done">>,
   <<"Decoding", "ErrorCaught">>, <<"Invoking", "ErrorCaught">>, <<"Encoding", "ErrorCaught">>,
   <<"ErrorCaught", "Encoding">>}

InOrder(phases) ==
  /\ phases[1] = "Decoding"
  /\ \A k \in 1..(Len(phases) - 1) : <<phases[k], phases[k + 1]>> \in StepOrder

Times(phases, pc) ==
  Cardinality({k \in 1..Len(phases) : phases[k] = pc})

\* C15: an HTTP invocation goes through decoding, invoking, encoding and done in
\* that order, with the error state entered from decoding or invoking and left
\* for encoding; its handler is invoked at most once, after decoding, with the
\* decoded request; and once it is over the runtime holds one wire response
C15_StepsInOrder ==
  \A i \in 1..Len(inv) :
    inv[i].mode = "http" =>
      /\ InOrder(inv[i].phases)
      /\ Times(inv[i].phases, "Invoking") <= 1
      /\ Went(inv[i], "Invoking") => Returned(inv[i].request) = createLambdaRequest(inv[i].event)
      /\ inv[i].outcome # NoOutcome => Went(inv[i], "Invoking")
      /\ Went(inv[i], "ErrorCaught") /\ inv[i].pc # "ErrorCaught" => Went(inv[i], "Encoding")
      /\ Finished(i) => inv[i].result.state = "resolved" /\ inv[i].result.val.t = "wire"
      /\ ~Finished(i) => inv[i].result = Pending

(* What Container.service changes. *)

\* the call that was started in this step
Started(c) ==
  c = Len(calls) + 1 /\ Len(calls') = c

\* call c wrote the cache in this step
Wrote(c) ==
  c \in 1..Len(calls) /\ calls[c].pc = "constructed" /\ calls'[c].pc = "resolved"

\* C16: no step of the container changes the environment or the initiator map;
\* the step that starts a call, a cache hit above all, leaves the cache as it
\* was; and the cache changes only when a call that constructed its service
\* writes, and then only in the entry of that call's name
C16_OnlyTheCacheChanges ==
  [][ /\ environment' = environment
      /\ initiator' = initiator
      /\ \A c \in 1..Len(calls') : Started(c) => cache' = cache
      /\ cache' # cache =>
           \E c \in 1..Len(calls) :
             /\ Wrote(c)
             /\ cache' = [cache EXCEPT ![calls[c].name] = calls[c].result] ]_vars

\* one service is cached and was returned from the cache, while another that
\* has an initiator still has no entry
C16_Witness ==
  /\ \E c \in 1..Len(calls) :
       /\ calls[c].pc = "resolved" /\ ~calls[c].invoked
       /\ cache[calls[c].name] = calls[c].result
  /\ \E n \in ServiceNames : initiator[n] # Undefined /\ cache[n] = Undefined

(* Completion of an HTTP invocation. *)

HandlerSettled(i) ==
  i <= Len(inv) /\ inv[i].mode = "http" /\ inv[i].outcome # NoOutcome

\* C17: an HTTP invocation whose handler settles, resolving or rejecting,
\* reaches Done with a wire response returned, with or without an error handler
\* and whether or not that one settles; and an invocation whose handler was
\* called and has not settled is not over
C17_SettledHandlerLeadsToDone ==
  /\ \A i \in 1..MaxInvocations :
       HandlerSettled(i) ~> (HandlerSettled(i) /\ Returned200(i))
  /\ [](\A i \in 1..Len(inv) :
          inv[i].mode = "http" /\ Finished(i) /\ Went(inv[i], "Invoking")
            => inv[i].outcome # NoOutcome)

(* Initiators that request services. *)

\* the calls the initiator invoked by call c made
NestedCalls(c) ==
  {k \in 1..Len(calls) : calls[k].owner = ByInitiator(c)}

\* call c returned something other than undefined
ReturnedInstance(c) ==
  calls[c].pc = "resolved" /\ calls[c].result # Undefined

InitiatorFailed(c) ==
  calls[c].pc = "awaiting" /\ calls'[c].pc = "rejected"

\* calls c and d are for the same name, and no call for it came between them
NextCallFor(c, d) ==
  /\ c < d /\ calls[c].name = calls[d].name
  /\ \A k \in (c + 1)..(d - 1) : calls[k].name # calls[c].name

\* C19: when the initiator of a call fails, with an error of its own or with the
\* error of a service it requested, the call fails with that error and the
\* cache is left as it was; and the next call for that name, if the calls for it
\* do not overlap, invokes the initiator again
C19_FailuresAreNotMemoized ==
  /\ [][\A c \in 1..Len(calls) :
          InitiatorFailed(c) =>
            /\ cache' = cache
            /\ calls'[c].result =
                 IF calls[c].waiting = 0 THEN ErrBoom ELSE calls[calls[c].waiting].result]_vars
  /\ [](\A c, d \in 1..Len(calls) :
          /\ NextCallFor(c, d) /\ ~overlapped[calls[c].name]
          /\ calls[c].invoked /\ calls[c].pc = "rejected"
          => calls[d].invoked /\ cache[calls[c].name] # calls[c].result)

\* an initiator failed, its call failed with the initiator's error, and the
\* next call for the name invoked the initiator again
C19_Witness ==
  \E c, d \in 1..Len(calls) :
    /\ NextCallFor(c, d) /\ ~overlapped[calls[c].name]
    /\ calls[c].invoked /\ calls[c].pc = "rejected" /\ calls[c].result = ErrBoom
    /\ calls[d].invoked

(* The entries of the cache. *)

\* the names service() finds in the cache
Cached ==
  {n \in ServiceNames : CacheHit(cache[n])}

Unencodable(response) ==
  \/ ~HasProperties(response)
  \/ Unserialisable(Get(response, TxtData))
  \/ HasCycle(Get(response, TxtData))

ReturnedUnencodable(i) ==
  inv[i].mode = "http" /\ inv[i].outcome.kind = "return" /\ Unencodable(inv[i].outcome.val)

\* C21: when the handler returns a result that cannot be encoded, the error the
\* encoder throws is caught by the wrapper: the invocation goes from encoding
\* to the error state and on to a wire response with status 500 that carries
\* that error, and the promise the runtime holds is fulfilled; a handler's
\* result that can be encoded never enters the error state
C21_EncodingFailureIsCaught ==
  \A i \in 1..Len(inv) :
    inv[i].mode = "http" /\ inv[i].outcome.kind = "return" =>
      IF Unencodable(inv[i].outcome.val)
        THEN /\ inv[i].phases = <<"Decoding", "Invoking", "Encoding", "ErrorCaught",
                                  "Encoding", "Done">>
             /\ ErrorName(inv[i].caught) = Str(<<"T", "y", "p", "e", "E", "r", "r", "o", "r">>)
             /\ inv[i].result.state = "resolved"
             /\ Wire(i).statusCode = Num(InternalServerError)
             /\ CarriesError(Wire(i), inv[i].caught)
        ELSE /\ inv[i].phases = <<"Decoding", "Invoking", "Encoding", "Done">>
             /\ inv[i].result.state = "resolved"
             /\ Wire(i).statusCode = Get(inv[i].outcome.val, TxtStatus)

\* a handler returned a response without data, and the runtime was handed a
\* response with status 500
C21_Witness ==
  \E i \in 1..Len(inv) :
    /\ ReturnedUnencodable(i) /\ HasProperties(inv[i].outcome.val)
    /\ Get(inv[i].outcome.val, TxtData) = Undefined
    /\ Returned200(i) /\ Went(inv[i], "ErrorCaught")
    /\ Wire(i).statusCode = Num(InternalServerError)

(* Calls of the error handler. *)

\* restApiProxy caught something for invocation i in this step
JustCaught(i) ==
  /\ inv'[i].mode = "http" /\ Went(inv'[i], "ErrorCaught")
  /\ i <= Len(inv) => ~Went(inv[i], "ErrorCaught")

\* the call of the registered error handler for what invocation i caught
Notification(i) ==
  [inv |-> i, handler |-> errorHandler, error |-> inv'[i].caught]

\* C22: in the step in which restApiProxy catches something, the error handler
\* registered last is called once with it, and nothing is called when none is
\* registered; no other step calls an error handler, so an invocation that
\* succeeds never does; and registering a handler calls nothing
C22_NotifiedOncePerCaughtError ==
  [][/\ \A i \in 1..Len(inv') :
          JustCaught(i) =>
            notified' = IF errorHandler # Undefined THEN Append(notified, Notification(i))
                        ELSE notified
     /\ (\A i \in 1..Len(inv') : ~JustCaught(i)) => notified' = notified]_vars

(* Initiators that resolve to undefined. *)

\* the initiator of name n has resolved to undefined whenever it has resolved
ResolvesToUndefined(n) ==
  /\ initiator[n] # Undefined
  /\ \A c \in 1..Len(calls) :
       calls[c].name = n /\ calls[c].invoked /\ calls[c].pc \in {"constructed", "resolved"}
         => calls[c].result = Undefined

\* C23: a call whose initiator resolved returns what the initiator resolved to
\* and leaves exactly that value in the cache under its name; when that is
\* undefined the name is not cached, so the next call for the name invokes the
\* initiator again (for names whose calls do not overlap), and for a name whose
\* initiator resolves to undefined every call, the later ones too, invokes it
C23_UndefinedIsNotCached ==
  /\ [][\A c \in 1..Len(calls) :
          Wrote(c) =>
            /\ calls'[c].result = calls[c].result
            /\ cache'[calls[c].name] = calls'[c].result
            /\ calls[c].result = Undefined <=> calls[c].name \notin Cached']_vars
  /\ [](\A n \in ServiceNames :
          ResolvesToUndefined(n) =>
            /\ n \notin Cached
            /\ \A d \in 1..Len(calls) : calls[d].name = n => calls[d].invoked)
  /\ [](\A c, d \in 1..Len(calls) :
          /\ NextCallFor(c, d) /\ ~overlapped[calls[c].name]
          /\ calls[c].invoked /\ calls[c].pc = "resolved" /\ calls[c].result = Undefined
          => calls[d].invoked)

\* two calls for one name, one after the other: the initiator resolved to
\* undefined in the first, and the second invoked it again and returned
\* undefined as well
C23_Witness ==
  \E c, d \in 1..Len(calls) :
    /\ NextCallFor(c, d) /\ ~overlapped[calls[c].name]
    /\ ResolvesToUndefined(calls[c].name)
    /\ calls[c].invoked /\ calls[c].pc = "resolved" /\ calls[c].result = Undefined
    /\ calls[d].invoked /\ calls[d].pc = "resolved" /\ calls[d].result = Undefined
    /\ calls[c].name \notin Cached
====
